---- MODULE Spec2Model ----
(***************************************************************************)
(* Duplicate / near-duplicate text detection of check_text_similarity.py.  *)
(*                                                                         *)
(* A text is a sequence of Unicode code points (naturals).  Record indices *)
(* are 0-based as in the program; sequences are 1-based, so record idx is  *)
(* held at position idx + 1.  A float (similarity_threshold, length_delta, *)
(* a similarity score) is an exact fraction <<numerator, denominator>>.    *)
(***************************************************************************)
EXTENDS Integers, Sequences, FiniteSets, TLC

VARIABLES
    pc,             \* position of main(): the next block to run
    args,           \* the parsed command line (parse_args)
    rapidfuzz_fuzz, \* TRUE when the rapidfuzz import succeeded
    rows,           \* the raw text of each CSV row, in file order
    texts,          \* main(): texts
    normalized,     \* main(): normalized
    lengths,        \* main(): lengths
    row_nums,       \* main(): row_nums
    exact_map,      \* main(): exact_map, in insertion order
    exact_rows,     \* rows written to exact_duplicates.csv
    signatures,     \* main(): signatures
    buckets,        \* main(): buckets, in insertion order
    bucket_pos,     \* number of buckets the scoring loop has consumed
    seen_pairs,     \* main(): seen_pairs
    compare_count,  \* main(): compare_count
    similar_count,  \* main(): similar_count
    compared,       \* the calls of similarity_ratio made so far, in order
    similar_rows,   \* rows written to similar_pairs.csv
    nt_in,          \* normalize_text harness: the text under test
    nt_flag,        \* normalize_text harness: strip_punct
    nt_once,        \* normalize_text harness: normalize_text(nt_in, nt_flag)
    nt_twice,       \* normalize_text harness: normalize_text(nt_once, nt_flag)
    nt_pc,          \* normalize_text harness: number of calls made
    sg_text,        \* minhash_signature harness: the text
    sg_n,           \* minhash_signature harness: ngram_size
    sg_k,           \* minhash_signature harness: signature_size
    sg_order,       \* minhash_signature harness: iteration order of the n-gram set
    sg_out,         \* minhash_signature harness: the signature returned
    sg_again,       \* minhash_signature harness: the signature of a second call
    sg_pc,          \* minhash_signature harness: number of calls made
    tr_text,        \* truncate_text harness: the text
    tr_max,         \* truncate_text harness: max_len
    tr_out,         \* truncate_text harness: the value returned
    tr_pc           \* truncate_text harness: number of calls made

vars == <<pc, args, rapidfuzz_fuzz, rows, texts, normalized, lengths, row_nums,
          exact_map, exact_rows, signatures, buckets, bucket_pos, seen_pairs,
          compare_count, similar_count, compared, similar_rows,
          nt_in, nt_flag, nt_once, nt_twice, nt_pc,
          sg_text, sg_n, sg_k, sg_order, sg_out, sg_again, sg_pc,
          tr_text, tr_max, tr_out, tr_pc>>

mainVars == <<pc, args, rapidfuzz_fuzz, rows, texts, normalized, lengths,
              row_nums, exact_map, exact_rows, signatures, buckets, bucket_pos,
              seen_pairs, compare_count, similar_count, compared, similar_rows>>

ntVars == <<nt_in, nt_flag, nt_once, nt_twice, nt_pc>>

sgVars == <<sg_text, sg_n, sg_k, sg_order, sg_out, sg_again, sg_pc>>

trVars == <<tr_text, tr_max, tr_out, tr_pc>>

\* The variables of the harnesses of the pure functions.
fnVars == <<ntVars, sgVars, trVars>>

(***************************************************************************)
(* Generic helpers.                                                        *)
(***************************************************************************)
Max(a, b) == IF a >= b THEN a ELSE b

Abs(a) == IF a >= 0 THEN a ELSE 0 - a

Range(s) == {s[i] : i \in 1..Len(s)}

\* s[lo:hi] of Python (0-based, hi exclusive, clamped to the sequence).
Slice(s, lo, hi) ==
    LET h == IF hi > Len(s) THEN Len(s) ELSE hi
    IN  IF lo >= h THEN <<>> ELSE [i \in 1..(h - lo) |-> s[lo + i]]

\* All sequences over S of length at most n.
RECURSIVE SeqsUpTo(_, _)
SeqsUpTo(S, n) ==
    IF n = 0 THEN {<<>>}
    ELSE LET shorter == SeqsUpTo(S, n - 1)
         IN  shorter \cup {Append(s, x) : s \in {t \in shorter : Len(t) = n - 1}, x \in S}

(***************************************************************************)
(* normalize_text                                                          *)
(***************************************************************************)
\* Code points matched by \s of the re module on str.
WhitespaceChars ==
    {9, 10, 11, 12, 13, 28, 29, 30, 31, 32, 133, 160, 5760, 8232, 8233, 8239, 8287, 12288}
        \cup (8192..8202)

\* The character class of the strip_punct substitution.
PunctChars ==
    {12289, 12290, 12539, 44, 46, 59, 58, 33, 63, 12300, 12301, 12302, 12303,
     65288, 65289, 40, 41, 65339, 65341, 91, 93, 123, 125, 60, 62}

\* unicodedata.normalize("NFKC", c) of one code point: the compatibility
\* spaces map to U+0020, the full-width ASCII variants U+FF01..U+FF5E to
\* U+0021..U+007E, the ideographic full stop family is unchanged.
NfkcChar(c) ==
    IF c \in ({160, 8239, 8287, 12288} \cup (8192..8202)) THEN 32
    ELSE IF c >= 65281 /\ c <= 65374 THEN c - 65248
    ELSE c

Nfkc(s) == [i \in 1..Len(s) |-> NfkcChar(s[i])]

\* value.replace("\r\n", "\n")
RECURSIVE ReplaceCrLf(_)
ReplaceCrLf(s) ==
    IF Len(s) = 0 THEN <<>>
    ELSE IF Len(s) >= 2 /\ s[1] = 13 /\ s[2] = 10
         THEN <<10>> \o ReplaceCrLf(SubSeq(s, 3, Len(s)))
         ELSE <<s[1]>> \o ReplaceCrLf(Tail(s))

\* value.replace("\r", "\n")
ReplaceCr(s) == [i \in 1..Len(s) |-> IF s[i] = 13 THEN 10 ELSE s[i]]

\* re.sub(r"\s+", " ", value): every maximal run of whitespace becomes one space.
RECURSIVE CollapseWhitespace(_)
CollapseWhitespace(s) ==
    IF Len(s) = 0 THEN <<>>
    ELSE IF s[1] \in WhitespaceChars
         THEN IF Len(s) >= 2 /\ s[2] \in WhitespaceChars
              THEN CollapseWhitespace(Tail(s))
              ELSE <<32>> \o CollapseWhitespace(Tail(s))
         ELSE <<s[1]>> \o CollapseWhitespace(Tail(s))

\* str.strip()
RECURSIVE LStrip(_)
LStrip(s) ==
    IF Len(s) > 0 /\ s[1] \in WhitespaceChars THEN LStrip(Tail(s)) ELSE s

RECURSIVE RStrip(_)
RStrip(s) ==
    IF Len(s) > 0 /\ s[Len(s)] \in WhitespaceChars
    THEN RStrip(SubSeq(s, 1, Len(s) - 1))
    ELSE s

Strip(s) == RStrip(LStrip(s))

NotPunct(c) == c \notin PunctChars

\* re.sub(r"[...]", "", value)
RemovePunct(s) == SelectSeq(s, NotPunct)

\* The value None where a text is expected: a sequence that is no text.
None == <<-1>>

normalize_text(text, strip_punct) ==
    IF text = None THEN <<>>
    ELSE LET value == Strip(CollapseWhitespace(ReplaceCr(ReplaceCrLf(Nfkc(text)))))
         IN  IF strip_punct THEN RemovePunct(value) ELSE value

(***************************************************************************)
(* adler32_hash and minhash_signature                                      *)
(***************************************************************************)
\* value.encode("utf-8") of one code point below U+10000.
Utf8Char(c) ==
    IF c < 128 THEN <<c>>
    ELSE IF c < 2048 THEN <<192 + (c \div 64), 128 + (c % 64)>>
    ELSE <<224 + (c \div 4096), 128 + ((c \div 64) % 64), 128 + (c % 64)>>

RECURSIVE Utf8(_)
Utf8(s) == IF Len(s) = 0 THEN <<>> ELSE Utf8Char(s[1]) \o Utf8(Tail(s))

\* zlib.adler32 over a byte sequence, from the running sums <<a, b>>.
RECURSIVE AdlerSums(_, _, _)
AdlerSums(bytes, a, b) ==
    IF Len(bytes) = 0 THEN <<a, b>>
    ELSE LET a2 == (a + bytes[1]) % 65521
         IN  AdlerSums(Tail(bytes), a2, (b + a2) % 65521)

\* A 32-bit hash value is held as <<high 16 bits, low 16 bits>>: for Adler-32
\* <<b, a>>, both below 65521, so the mask & 0xFFFFFFFF changes nothing.
\* In place of a hash value: the call raised UnicodeEncodeError.
EncodeError == <<-1, -1>>

\* value.encode("utf-8") returns: the codec refuses the surrogate code points
\* U+D800..U+DFFF.
Encodable(value) == \A i \in 1..Len(value) : value[i] < 55296 \/ value[i] > 57343

adler32_hash(value) ==
    IF ~Encodable(value) THEN EncodeError
    ELSE LET sums == AdlerSums(Utf8(value), 1, 0)
         IN  <<sums[2] % 65536, sums[1] % 65536>>

\* The integer 0 as a hash value.
ZeroHash == <<0, 0>>

\* x <= y on hash values: the order of the 32-bit integers.
HashLeq(x, y) == x[1] < y[1] \/ (x[1] = y[1] /\ x[2] <= y[2])

\* {text[i : i + n] for i in range(len(text) - n + 1)}
Grams(text, ngram_size) ==
    {Slice(text, i, i + ngram_size) : i \in 0..(Len(text) - ngram_size)}

\* sorted(adler32_hash(g) for g in grams): one entry per n-gram, ascending.
RECURSIVE SortedHashes(_)
SortedHashes(grams) ==
    IF grams = {} THEN <<>>
    ELSE LET g == CHOOSE x \in grams :
                      \A y \in grams : HashLeq(adler32_hash(x), adler32_hash(y))
         IN  <<adler32_hash(g)>> \o SortedHashes(grams \ {g})

\* [x] * n
Repeat(x, n) == [i \in 1..n |-> x]

\* minhash_signature without the final [:signature_size].
minhash_signatureUntruncated(text, ngram_size, signature_size) ==
    IF Len(text) = 0 THEN Repeat(ZeroHash, signature_size)
    ELSE IF Len(text) < ngram_size
    THEN IF Encodable(text) THEN Repeat(adler32_hash(text), signature_size)
         ELSE <<EncodeError>>
    ELSE IF \E g \in Grams(text, ngram_size) : ~Encodable(g) THEN <<EncodeError>>
    ELSE LET hashes == SortedHashes(Grams(text, ngram_size))
         IN  IF Len(hashes) = 0 THEN Repeat(ZeroHash, signature_size)
             ELSE IF Len(hashes) < signature_size
             THEN LET repeats == (signature_size + Len(hashes) - 1) \div Len(hashes)
                      tiled == [i \in 1..(Len(hashes) * repeats) |->
                                    hashes[((i - 1) % Len(hashes)) + 1]]
                  IN  tiled
             ELSE hashes

\* minhash_signature that fills up with the largest hash instead of tiling.
minhash_signaturePadded(text, ngram_size, signature_size) ==
    IF Len(text) = 0 THEN Repeat(ZeroHash, signature_size)
    ELSE IF Len(text) < ngram_size
    THEN IF Encodable(text) THEN Repeat(adler32_hash(text), signature_size)
         ELSE <<EncodeError>>
    ELSE IF \E g \in Grams(text, ngram_size) : ~Encodable(g) THEN <<EncodeError>>
    ELSE LET hashes == SortedHashes(Grams(text, ngram_size))
         IN  IF Len(hashes) = 0 THEN Repeat(ZeroHash, signature_size)
             ELSE IF Len(hashes) < signature_size
             THEN LET repeats == (signature_size + Len(hashes) - 1) \div Len(hashes)
                      tiled == [i \in 1..(Len(hashes) * repeats) |->
                                    hashes[((i - 1) % Len(hashes)) + 1]]
                  IN  hashes \o Repeat(hashes[Len(hashes)], signature_size - Len(hashes))
             ELSE Slice(hashes, 0, signature_size)

\* minhash_signature that treats a text shorter than an n-gram as empty.
minhash_signatureShortAsEmpty(text, ngram_size, signature_size) ==
    IF Len(text) = 0 THEN Repeat(ZeroHash, signature_size)
    ELSE IF Len(text) < ngram_size
    THEN IF Encodable(text) THEN Repeat(ZeroHash, signature_size)
         ELSE <<EncodeError>>
    ELSE IF \E g \in Grams(text, ngram_size) : ~Encodable(g) THEN <<EncodeError>>
    ELSE LET hashes == SortedHashes(Grams(text, ngram_size))
         IN  IF Len(hashes) = 0 THEN Repeat(ZeroHash, signature_size)
             ELSE IF Len(hashes) < signature_size
             THEN LET repeats == (signature_size + Len(hashes) - 1) \div Len(hashes)
                      tiled == [i \in 1..(Len(hashes) * repeats) |->
                                    hashes[((i - 1) % Len(hashes)) + 1]]
                  IN  Slice(tiled, 0, signature_size)
             ELSE Slice(hashes, 0, signature_size)

\* <<EncodeError>> in place of a signature: adler32_hash raised inside the
\* call (line 35 or line 38), and the exception leaves minhash_signature.
minhash_signature(text, ngram_size, signature_size) ==
    IF Len(text) = 0 THEN Repeat(ZeroHash, signature_size)
    ELSE IF Len(text) < ngram_size
    THEN IF Encodable(text) THEN Repeat(adler32_hash(text), signature_size)
         ELSE <<EncodeError>>
    ELSE IF \E g \in Grams(text, ngram_size) : ~Encodable(g) THEN <<EncodeError>>
    ELSE LET hashes == SortedHashes(Grams(text, ngram_size))
         IN  IF Len(hashes) = 0 THEN Repeat(ZeroHash, signature_size)
             ELSE IF Len(hashes) < signature_size
             THEN LET repeats == (signature_size + Len(hashes) - 1) \div Len(hashes)
                      tiled == [i \in 1..(Len(hashes) * repeats) |->
                                    hashes[((i - 1) % Len(hashes)) + 1]]
                  IN  Slice(tiled, 0, signature_size)
             ELSE Slice(hashes, 0, signature_size)

(***************************************************************************)
(* similarity_ratio                                                        *)
(***************************************************************************)
\* Length of a longest common subsequence: rapidfuzz's Indel similarity.
RECURSIVE LcsLen(_, _)
LcsLen(a, b) ==
    IF Len(a) = 0 \/ Len(b) = 0 THEN 0
    ELSE IF a[1] = b[1] THEN 1 + LcsLen(Tail(a), Tail(b))
    ELSE Max(LcsLen(Tail(a), b), LcsLen(a, Tail(b)))

\* Length of the common run of a[i..] and b[j..] (1-based starts).
RECURSIVE RunLen(_, _, _, _)
RunLen(a, b, i, j) ==
    IF i > Len(a) \/ j > Len(b) THEN 0
    ELSE IF a[i] = b[j] THEN 1 + RunLen(a, b, i + 1, j + 1)
    ELSE 0

\* SequenceMatcher.find_longest_match on whole a, b (no junk: isjunk is None
\* and autojunk needs len(b) >= 200): the longest block, earliest in a, then
\* earliest in b, as <<i, j, size>> with 1-based starts.
LongestMatch(a, b) ==
    LET cand == {<<i, j>> : i \in 1..Len(a), j \in 1..Len(b)}
        best == CHOOSE p \in cand :
                    \A q \in cand :
                        LET kp == RunLen(a, b, p[1], p[2])
                            kq == RunLen(a, b, q[1], q[2])
                        IN  \/ kp > kq
                            \/ kp = kq /\ p[1] < q[1]
                            \/ kp = kq /\ p[1] = q[1] /\ p[2] <= q[2]
    IN  <<best[1], best[2], RunLen(a, b, best[1], best[2])>>

\* sum of the sizes of SequenceMatcher.get_matching_blocks()
RECURSIVE MatchingSize(_, _)
MatchingSize(a, b) ==
    IF Len(a) = 0 \/ Len(b) = 0 THEN 0
    ELSE LET m == LongestMatch(a, b)
         IN  IF m[3] = 0 THEN 0
             ELSE m[3]
                  + MatchingSize(SubSeq(a, 1, m[1] - 1), SubSeq(b, 1, m[2] - 1))
                  + MatchingSize(SubSeq(a, m[1] + m[3], Len(a)),
                                 SubSeq(b, m[2] + m[3], Len(b)))

\* The score as a fraction; both back ends give 1.0 for two empty texts.
similarity_ratio(a, b, use_rapidfuzz) ==
    IF Len(a) + Len(b) = 0 THEN <<1, 1>>
    ELSE IF use_rapidfuzz THEN <<2 * LcsLen(a, b), Len(a) + Len(b)>>
    ELSE <<2 * MatchingSize(a, b), Len(a) + Len(b)>>

\* x < y and x > y on fractions with positive denominators.
FracLess(x, y) == x[1] * y[2] < y[1] * x[2]

FracGreater(x, y) == x[1] * y[2] > y[1] * x[2]

(***************************************************************************)
(* build_buckets                                                           *)
(***************************************************************************)
\* SetDefaultAppend that puts idx at the head of the list.
SetDefaultPrepend(d, key, idx) ==
    IF \E p \in 1..Len(d) : d[p].key = key
    THEN [p \in 1..Len(d) |->
            IF d[p].key = key
            THEN [key |-> key, idxs |-> <<idx>> \o d[p].idxs]
            ELSE d[p]]
    ELSE Append(d, [key |-> key, idxs |-> <<idx>>])

\* SetDefaultAppend that puts a new key before the keys it holds.
SetDefaultAppendNewFirst(d, key, idx) ==
    IF \E p \in 1..Len(d) : d[p].key = key
    THEN [p \in 1..Len(d) |->
            IF d[p].key = key
            THEN [key |-> key, idxs |-> Append(d[p].idxs, idx)]
            ELSE d[p]]
    ELSE <<[key |-> key, idxs |-> <<idx>>]>> \o d

\* buckets.setdefault(key, []).append(idx) on an insertion-ordered dict,
\* held as a sequence of [key, idxs] entries.
SetDefaultAppend(d, key, idx) ==
    IF \E p \in 1..Len(d) : d[p].key = key
    THEN [p \in 1..Len(d) |->
            IF d[p].key = key
            THEN [key |-> key, idxs |-> Append(d[p].idxs, idx)]
            ELSE d[p]]
    ELSE Append(d, [key |-> key, idxs |-> <<idx>>])

\* AddBands without the test that drops a band shorter than band_size.
RECURSIVE AddBandsKeepPartial(_, _, _, _, _, _)
AddBandsKeepPartial(d, idx, sig, bucket, offset, band_size) ==
    IF offset >= Len(sig) THEN d
    ELSE LET band == Slice(sig, offset, offset + band_size)
         IN  AddBandsKeepPartial(SetDefaultAppend(d, <<bucket, offset, band>>, idx),
                                 idx, sig, bucket, offset + band_size, band_size)

\* The inner loop of build_buckets for record idx, from band offset `offset`.
RECURSIVE AddBands(_, _, _, _, _, _)
AddBands(d, idx, sig, bucket, offset, band_size) ==
    IF offset >= Len(sig) THEN d
    ELSE LET band == Slice(sig, offset, offset + band_size)
         IN  IF Len(band) < band_size
             THEN AddBands(d, idx, sig, bucket, offset + band_size, band_size)
             ELSE AddBands(SetDefaultAppend(d, <<bucket, offset, band>>, idx),
                           idx, sig, bucket, offset + band_size, band_size)

\* AddRecords with every record in length class 0.
RECURSIVE AddRecordsOneClass(_, _, _, _, _, _)
AddRecordsOneClass(d, idx, sigs, lens, band_size, length_bucket) ==
    IF idx >= Len(sigs) THEN d
    ELSE AddRecordsOneClass(AddBands(d, idx, sigs[idx + 1], 0, 0, band_size),
                            idx + 1, sigs, lens, band_size, length_bucket)

\* The outer loop of build_buckets, from record idx.
RECURSIVE AddRecords(_, _, _, _, _, _)
AddRecords(d, idx, sigs, lens, band_size, length_bucket) ==
    IF idx >= Len(sigs) THEN d
    ELSE LET bucket == IF length_bucket # 0
                       THEN lens[idx + 1] \div length_bucket
                       ELSE 0
         IN  AddRecords(AddBands(d, idx, sigs[idx + 1], bucket, 0, band_size),
                        idx + 1, sigs, lens, band_size, length_bucket)

build_buckets(sigs, lens, band_size, length_bucket) ==
    AddRecords(<<>>, 0, sigs, lens, band_size, length_bucket)

(***************************************************************************)
(* truncate_text                                                           *)
(***************************************************************************)
\* "..."
Ellipsis == <<46, 46, 46>>

\* In place of a text: the call raised TypeError (len() of None).
TypeError == <<-2>>

\* truncate_text that cuts without appending the marker.
truncate_textUnmarked(text, max_len) ==
    IF max_len = <<>> \/ max_len[1] <= 0 THEN text
    ELSE IF text = None THEN TypeError
    ELSE IF Len(text) <= max_len[1] THEN text
    ELSE Slice(text, 0, max_len[1])

\* max_len is <<>> for None and <<n>> for the integer n.
truncate_text(text, max_len) ==
    IF max_len = <<>> \/ max_len[1] <= 0 THEN text
    ELSE IF text = None THEN TypeError
    ELSE IF Len(text) <= max_len[1] THEN text
    ELSE Slice(text, 0, max_len[1]) \o Ellipsis

\* A value as csv.writer writes it: None becomes the empty string.
Cell(value) == IF value = None THEN <<>> ELSE value

(***************************************************************************)
(* main(): exact duplicates                                                *)
(***************************************************************************)
\* ExactEligible without the emptiness test.
ExactEligibleAlways(norm) == TRUE

\* Whether line 197 lets a normalized text into exact_map: `if not norm: continue`.
ExactEligible(norm) == Len(norm) # 0

\* Lines 195-199, from record idx.
RECURSIVE BuildExactMap(_, _, _)
BuildExactMap(d, idx, norms) ==
    IF idx >= Len(norms) THEN d
    ELSE IF ExactEligible(norms[idx + 1])
    THEN BuildExactMap(SetDefaultAppend(d, norms[idx + 1], idx), idx + 1, norms)
    ELSE BuildExactMap(d, idx + 1, norms)

\* GroupSkipped with `<= 2`.
GroupSkippedUpToTwo(idxs) == Len(idxs) <= 2

\* Line 218: `if len(idxs) < 2: continue`.
GroupSkipped(idxs) == Len(idxs) < 2

\* Lines 221-233: the rows of one group.
GroupRows(group_id, norm_text, idxs, nums, txts, max_len) ==
    [p \in 1..Len(idxs) |->
        [group_id |-> group_id, idx |-> idxs[p], row_num |-> nums[idxs[p] + 1],
         text |-> Cell(truncate_text(txts[idxs[p] + 1], max_len)),
         normalized_text |-> truncate_text(norm_text, max_len),
         count_in_group |-> Len(idxs)]]

\* WriteExactRows with group_id incremented before the size test.
RECURSIVE WriteExactRowsCountAll(_, _, _, _, _, _, _)
WriteExactRowsCountAll(out, group_id, p, d, nums, txts, max_len) ==
    IF p > Len(d) THEN out
    ELSE IF Len(d[p].idxs) < 2
    THEN WriteExactRowsCountAll(out, group_id + 1, p + 1, d, nums, txts, max_len)
    ELSE WriteExactRowsCountAll(
             out \o GroupRows(group_id + 1, d[p].key, d[p].idxs, nums, txts, max_len),
             group_id + 1, p + 1, d, nums, txts, max_len)

\* Lines 216-233, from entry p of exact_map with the current group_id.
RECURSIVE WriteExactRows(_, _, _, _, _, _, _)
WriteExactRows(out, group_id, p, d, nums, txts, max_len) ==
    IF p > Len(d) THEN out
    ELSE IF GroupSkipped(d[p].idxs)
    THEN WriteExactRows(out, group_id, p + 1, d, nums, txts, max_len)
    ELSE WriteExactRows(
             out \o GroupRows(group_id + 1, d[p].key, d[p].idxs, nums, txts, max_len),
             group_id + 1, p + 1, d, nums, txts, max_len)

(***************************************************************************)
(* main(): the scoring loop                                                *)
(***************************************************************************)
\* BucketSkipped with max_block_size 0 taken as a size.
BucketSkippedZeroIsSize(idxs, max_block_size) ==
    Len(idxs) < 2 \/ Len(idxs) > max_block_size

\* BucketSkipped without the max_block_size test.
BucketSkippedNoCap(idxs, max_block_size) == Len(idxs) < 2

\* Lines 264-267: the two `continue`s at the head of the bucket loop.
BucketSkipped(idxs, max_block_size) ==
    \/ Len(idxs) < 2
    \/ (max_block_size # 0 /\ Len(idxs) > max_block_size)

\* TooShort off by one.
TooShortOffByOne(len, min_length) == len < min_length - 1

\* Lines 270 and 274: `lengths[idx] < args.min_length`.
TooShort(len, min_length) == len < min_length

\* Lines 276-279: (min << 32) | max, held as <<high word, low word>>.
PairId(idx_a, idx_b) ==
    IF idx_a < idx_b THEN <<idx_a, idx_b>> ELSE <<idx_b, idx_a>>

\* AlreadySeen that takes any marked pair for this one: `if seen_pairs`.
AlreadySeenAny(pair_id, seen) == seen # {}

\* AlreadySeen that never finds the pair.
AlreadySeenNever(pair_id, seen) == FALSE

\* Line 280: `pair_id in seen_pairs`.
AlreadySeen(pair_id, seen) == pair_id \in seen

\* IdenticalSkipped with the flag inverted.
IdenticalSkippedInverted(include_identical, norm_a, norm_b) ==
    include_identical /\ norm_a = norm_b

\* Line 283.
IdenticalSkipped(include_identical, norm_a, norm_b) ==
    ~include_identical /\ norm_a = norm_b

\* LengthDeltaExceeded with length_delta 0 taken as a limit.
LengthDeltaExceededZeroIsLimit(len_a, len_b, length_delta) ==
    LET len_max == Max(len_a, len_b)
    IN  /\ len_max # 0
        /\ FracGreater(<<Abs(len_a - len_b), len_max>>, length_delta)

\* LengthDeltaExceeded with delta taken over the sum of the lengths.
LengthDeltaExceededOverSum(len_a, len_b, length_delta) ==
    /\ len_a + len_b # 0
    /\ length_delta[1] # 0
    /\ FracGreater(<<Abs(len_a - len_b), len_a + len_b>>, length_delta)

\* Lines 285-289: delta = |la - lb| / len_max, rejected when length_delta is
\* truthy and delta > length_delta.
LengthDeltaExceeded(len_a, len_b, length_delta) ==
    LET len_max == Max(len_a, len_b)
    IN  /\ len_max # 0
        /\ length_delta[1] # 0
        /\ FracGreater(<<Abs(len_a - len_b), len_max>>, length_delta)

\* BelowThreshold with `<=`.
BelowThresholdOrEqual(score, threshold) == ~FracGreater(score, threshold)

\* BelowThreshold with the comparison reversed.
BelowThresholdReversed(score, threshold) == FracGreater(score, threshold)

\* Line 292: `score < args.similarity_threshold`.
BelowThreshold(score, threshold) == FracLess(score, threshold)

\* The state of the scoring loop; raised: an exception has left the loop.
ScoreState(seen, count, matches, calls, out) ==
    [seen_pairs |-> seen, compare_count |-> count, similar_count |-> matches,
     compared |-> calls, similar_rows |-> out, raised |-> FALSE]

\* Lines 273-309: one pass of the inner loop body for the pair (idx_a, idx_b).
ScorePair(st, idx_a, idx_b, norms, lens, nums, txts, a, rf) ==
    IF st.raised THEN st
    ELSE IF TooShort(lens[idx_b + 1], a.min_length) THEN st
    ELSE LET pair_id == PairId(idx_a, idx_b)
         IN  IF AlreadySeen(pair_id, st.seen_pairs) THEN st
             ELSE LET st1 == [st EXCEPT !.seen_pairs = @ \cup {pair_id}]
                      score == similarity_ratio(norms[idx_a + 1], norms[idx_b + 1], rf)
                      st2 == [st1 EXCEPT !.compare_count = @ + 1,
                                         !.compared = Append(@, <<idx_a, idx_b>>)]
                      text_a == truncate_text(txts[idx_a + 1], a.text_max_len)
                      text_b == truncate_text(txts[idx_b + 1], a.text_max_len)
                  IN  IF IdenticalSkipped(a.include_identical,
                                          norms[idx_a + 1], norms[idx_b + 1])
                      THEN st1
                      ELSE IF LengthDeltaExceeded(lens[idx_a + 1], lens[idx_b + 1],
                                                  a.length_delta)
                      THEN st1
                      ELSE IF BelowThreshold(score, a.similarity_threshold)
                      THEN st2
                      ELSE IF text_a = TypeError \/ text_b = TypeError
                      THEN [st2 EXCEPT !.similar_count = @ + 1, !.raised = TRUE]
                      ELSE [st2 EXCEPT
                               !.similar_count = @ + 1,
                               !.similar_rows = Append(@,
                                   [idx_a |-> idx_a, idx_b |-> idx_b,
                                    row_num_a |-> nums[idx_a + 1],
                                    row_num_b |-> nums[idx_b + 1],
                                    score |-> score,
                                    text_a |-> Cell(text_a),
                                    text_b |-> Cell(text_b)])]

\* Lines 272-309: the inner loop for position i, from position j (0-based).
RECURSIVE ScoreInner(_, _, _, _, _, _, _, _, _, _)
ScoreInner(st, idxs, i, j, norms, lens, nums, txts, a, rf) ==
    IF j >= Len(idxs) THEN st
    ELSE ScoreInner(ScorePair(st, idxs[i + 1], idxs[j + 1], norms, lens, nums, txts, a, rf),
                    idxs, i, j + 1, norms, lens, nums, txts, a, rf)

\* Lines 268-309: the loop over i, from position i (0-based).
RECURSIVE ScoreOuter(_, _, _, _, _, _, _, _, _)
ScoreOuter(st, idxs, i, norms, lens, nums, txts, a, rf) ==
    IF i >= Len(idxs) THEN st
    ELSE IF TooShort(lens[idxs[i + 1] + 1], a.min_length)
    THEN ScoreOuter(st, idxs, i + 1, norms, lens, nums, txts, a, rf)
    ELSE ScoreOuter(ScoreInner(st, idxs, i, i + 1, norms, lens, nums, txts, a, rf),
                    idxs, i + 1, norms, lens, nums, txts, a, rf)

\* Lines 263-309: one pass of the bucket loop.
ScoreOneBucket(st, idxs, norms, lens, nums, txts, a, rf) ==
    IF BucketSkipped(idxs, a.max_block_size) THEN st
    ELSE ScoreOuter(st, idxs, 0, norms, lens, nums, txts, a, rf)

\* Lines 263-309: the bucket loop from bucket p (1-based) to the end.
RECURSIVE ScoreBuckets(_, _, _, _, _, _, _, _, _)
ScoreBuckets(st, p, bs, norms, lens, nums, txts, a, rf) ==
    IF p > Len(bs) THEN st
    ELSE ScoreBuckets(ScoreOneBucket(st, bs[p].idxs, norms, lens, nums, txts, a, rf),
                      p + 1, bs, norms, lens, nums, txts, a, rf)

(***************************************************************************)
(* Inputs of a run.                                                        *)
(***************************************************************************)
\* Largest number of CSV rows of a run.
MaxRecords == 3

\* Raw texts of the rows: "", "a", "ab", "ab " (equal to "ab" once
\* normalized), "ba", "aab".
TextPool == {<<>>, <<97>>, <<97, 98>>, <<97, 98, 32>>, <<98, 97>>, <<97, 97, 98>>}

\* Values of --similarity-threshold.
Thresholds == {<<1, 2>>, <<3, 4>>}

\* Command lines: every combination of the scoring options, on one-character
\* n-grams with two bands of one hash and no length classes.
ScoringConfigs ==
    [similarity_threshold : Thresholds,
     min_length : {0, 2},
     length_delta : {<<0, 1>>, <<1, 2>>},
     ngram : {1},
     sig_size : {2},
     band_size : {1},
     length_bucket : {0},
     max_block_size : {0, 2},
     strip_punct : {FALSE},
     text_max_len : {<<0>>},
     include_identical : BOOLEAN]

\* The most permissive of them.
PermissiveArgs ==
    [similarity_threshold |-> <<1, 2>>, min_length |-> 0, length_delta |-> <<0, 1>>,
     ngram |-> 1, sig_size |-> 2, band_size |-> 1, length_bucket |-> 0,
     max_block_size |-> 0, strip_punct |-> FALSE, text_max_len |-> <<0>>,
     include_identical |-> FALSE]

\* The command lines of the model: the scoring combinations, and the
\* permissive one with length classes of 2, and with one band of two hashes.
Configs ==
    ScoringConfigs
        \cup {[PermissiveArgs EXCEPT !.length_bucket = 2],
              [PermissiveArgs EXCEPT !.band_size = 2]}

\* The defaults of parse_args (lines 101-164).
DefaultArgs ==
    [similarity_threshold |-> <<9, 10>>, min_length |-> 20,
     length_delta |-> <<3, 10>>, ngram |-> 3, sig_size |-> 12, band_size |-> 4,
     length_bucket |-> 50, max_block_size |-> 2000, strip_punct |-> FALSE,
     text_max_len |-> <<200>>, include_identical |-> FALSE]

\* The harness of normalize_text is idle during a run of main().
NtIdle == nt_in = <<>> /\ nt_flag = FALSE /\ nt_once = <<>> /\ nt_twice = <<>> /\ nt_pc = 0

\* The harness of minhash_signature is idle.
SgIdle ==
    /\ sg_text = <<>>
    /\ sg_n = 1
    /\ sg_k = 1
    /\ sg_order = <<>>
    /\ sg_out = <<>>
    /\ sg_again = <<>>
    /\ sg_pc = 0

\* The harness of truncate_text is idle.
TrIdle == tr_text = <<>> /\ tr_max = <<>> /\ tr_out = <<>> /\ tr_pc = 0

(***************************************************************************)
(* main() as a state machine: one action per block.                        *)
(***************************************************************************)
\* After parse_args() and load_rows(): lines 169-175.
Init ==
    /\ pc = "normalize"
    /\ args \in Configs
    /\ rapidfuzz_fuzz \in BOOLEAN
    /\ rows \in SeqsUpTo(TextPool, MaxRecords)
    /\ texts = <<>>
    /\ normalized = <<>>
    /\ lengths = <<>>
    /\ row_nums = <<>>
    /\ exact_map = <<>>
    /\ exact_rows = <<>>
    /\ signatures = <<>>
    /\ buckets = <<>>
    /\ bucket_pos = 0
    /\ seen_pairs = {}
    /\ compare_count = 0
    /\ similar_count = 0
    /\ compared = <<>>
    /\ similar_rows = <<>>
    /\ NtIdle
    /\ SgIdle
    /\ TrIdle

\* Lines 177-193: the per-row loop.
NormalizeRows ==
    /\ pc = "normalize"
    /\ texts' = rows
    /\ normalized' = [i \in 1..Len(rows) |-> normalize_text(rows[i], args.strip_punct)]
    /\ lengths' = [i \in 1..Len(rows) |-> Len(normalize_text(rows[i], args.strip_punct))]
    /\ row_nums' = [i \in 1..Len(rows) |-> i + 1]
    /\ pc' = "exact_map"
    /\ UNCHANGED <<args, rapidfuzz_fuzz, rows, exact_map, exact_rows, signatures,
                   buckets, bucket_pos, seen_pairs, compare_count, similar_count,
                   compared, similar_rows>>
    /\ UNCHANGED fnVars

\* GroupExact leaving out the records shorter than --min-length.
GroupExactLongOnly ==
    /\ pc = "exact_map"
    /\ exact_map' = BuildExactMap(<<>>, 0,
                        [i \in 1..Len(normalized) |->
                            IF lengths[i] < args.min_length THEN <<>>
                            ELSE normalized[i]])
    /\ pc' = "exact_write"
    /\ UNCHANGED <<args, rapidfuzz_fuzz, rows, texts, normalized, lengths, row_nums,
                   exact_rows, signatures, buckets, bucket_pos, seen_pairs,
                   compare_count, similar_count, compared, similar_rows>>
    /\ UNCHANGED fnVars

\* Lines 195-199.
GroupExact ==
    /\ pc = "exact_map"
    /\ exact_map' = BuildExactMap(<<>>, 0, normalized)
    /\ pc' = "exact_write"
    /\ UNCHANGED <<args, rapidfuzz_fuzz, rows, texts, normalized, lengths, row_nums,
                   exact_rows, signatures, buckets, bucket_pos, seen_pairs,
                   compare_count, similar_count, compared, similar_rows>>
    /\ UNCHANGED fnVars

\* Lines 201-233.
WriteExact ==
    /\ pc = "exact_write"
    /\ exact_rows' = WriteExactRows(<<>>, 0, 1, exact_map, row_nums, texts,
                                  args.text_max_len)
    /\ pc' = "signatures"
    /\ UNCHANGED <<args, rapidfuzz_fuzz, rows, texts, normalized, lengths, row_nums,
                   exact_map, signatures, buckets, bucket_pos, seen_pairs,
                   compare_count, similar_count, compared, similar_rows>>
    /\ UNCHANGED fnVars

\* Lines 235-237.
ComputeSignatures ==
    /\ pc = "signatures"
    /\ LET sigs == [i \in 1..Len(normalized) |->
                        minhash_signature(normalized[i], args.ngram, args.sig_size)]
       IN  IF \E i \in 1..Len(sigs) : sigs[i] = <<EncodeError>>
           THEN signatures' = signatures /\ pc' = "crashed"
           ELSE signatures' = sigs /\ pc' = "buckets"
    /\ UNCHANGED <<args, rapidfuzz_fuzz, rows, texts, normalized, lengths, row_nums,
                   exact_map, exact_rows, buckets, bucket_pos, seen_pairs,
                   compare_count, similar_count, compared, similar_rows>>
    /\ UNCHANGED fnVars

\* Lines 238-245.
BuildBuckets ==
    /\ pc = "buckets"
    /\ buckets' = build_buckets(signatures, lengths, args.band_size, args.length_bucket)
    /\ pc' = "score"
    /\ UNCHANGED <<args, rapidfuzz_fuzz, rows, texts, normalized, lengths, row_nums,
                   exact_map, exact_rows, signatures, bucket_pos, seen_pairs,
                   compare_count, similar_count, compared, similar_rows>>
    /\ UNCHANGED fnVars

\* Lines 263-309: one pass of `for idxs in buckets.values()`.
ScoreBucket ==
    /\ pc = "score"
    /\ bucket_pos < Len(buckets)
    /\ LET st == ScoreOneBucket(
                     ScoreState(seen_pairs, compare_count, similar_count,
                                compared, similar_rows),
                     buckets[bucket_pos + 1].idxs, normalized, lengths, row_nums,
                     texts, args, rapidfuzz_fuzz)
       IN  /\ seen_pairs' = st.seen_pairs
           /\ compare_count' = st.compare_count
           /\ similar_count' = st.similar_count
           /\ compared' = st.compared
           /\ similar_rows' = st.similar_rows
           /\ pc' = IF st.raised THEN "crashed" ELSE pc
    /\ bucket_pos' = bucket_pos + 1
    /\ UNCHANGED <<args, rapidfuzz_fuzz, rows, texts, normalized, lengths,
                   row_nums, exact_map, exact_rows, signatures, buckets>>
    /\ UNCHANGED fnVars

\* Lines 311-322: the bucket loop is exhausted and the summary is printed.
Finish ==
    /\ pc = "score"
    /\ bucket_pos = Len(buckets)
    /\ pc' = "done"
    /\ UNCHANGED <<args, rapidfuzz_fuzz, rows, texts, normalized, lengths, row_nums,
                   exact_map, exact_rows, signatures, buckets, bucket_pos,
                   seen_pairs, compare_count, similar_count, compared, similar_rows>>
    /\ UNCHANGED fnVars

Next ==
    \/ NormalizeRows
    \/ GroupExact
    \/ WriteExact
    \/ ComputeSignatures
    \/ BuildBuckets
    \/ ScoreBucket
    \/ Finish

Spec == Init /\ [][Next]_vars

(***************************************************************************)
(* normalize_text applied twice: normalize_text(normalize_text(t, s), s).  *)
(***************************************************************************)
\* Longest text given to normalize_text.
MaxNormLen == 3

\* 'a', ' ', ',', LF, CR, IDEOGRAPHIC SPACE, FULLWIDTH COMMA.
NormAlphabet == {97, 32, 44, 10, 13, 12288, 65292}

\* main() is not running while the harness applies normalize_text.
MainIdle ==
    /\ pc = "idle"
    /\ args = DefaultArgs
    /\ rapidfuzz_fuzz = FALSE
    /\ rows = <<>>
    /\ texts = <<>>
    /\ normalized = <<>>
    /\ lengths = <<>>
    /\ row_nums = <<>>
    /\ exact_map = <<>>
    /\ exact_rows = <<>>
    /\ signatures = <<>>
    /\ buckets = <<>>
    /\ bucket_pos = 0
    /\ seen_pairs = {}
    /\ compare_count = 0
    /\ similar_count = 0
    /\ compared = <<>>
    /\ similar_rows = <<>>

NormInit ==
    /\ MainIdle
    /\ SgIdle
    /\ TrIdle
    /\ nt_in \in SeqsUpTo(NormAlphabet, MaxNormLen)
    /\ nt_flag \in BOOLEAN
    /\ nt_once = <<>>
    /\ nt_twice = <<>>
    /\ nt_pc = 0

\* value = normalize_text(t, s)
NormalizeOnce ==
    /\ nt_pc = 0
    /\ nt_once' = normalize_text(nt_in, nt_flag)
    /\ nt_pc' = 1
    /\ UNCHANGED <<nt_in, nt_flag, nt_twice>>
    /\ UNCHANGED <<mainVars, sgVars, trVars>>

\* normalize_text(value, s)
NormalizeTwice ==
    /\ nt_pc = 1
    /\ nt_twice' = normalize_text(nt_once, nt_flag)
    /\ nt_pc' = 2
    /\ UNCHANGED <<nt_in, nt_flag, nt_once>>
    /\ UNCHANGED <<mainVars, sgVars, trVars>>

NormNext == NormalizeOnce \/ NormalizeTwice

SpecNorm == NormInit /\ [][NormNext]_vars

(***************************************************************************)
(* Vocabulary of the properties.                                           *)
(***************************************************************************)
\* Record indices of the run.
Idx == 0..(Len(rows) - 1)

\* The unordered pair of a row of similar_pairs.csv.
RowPair(r) == {r.idx_a, r.idx_b}

\* The unordered pairs reported so far.
ReportedPairs == {RowPair(similar_rows[p]) : p \in 1..Len(similar_rows)}

\* The unordered pairs of the rows r.
PairsOf(r) == {RowPair(r[p]) : p \in 1..Len(r)}

\* Bucket entry e holds both i and j.
Holds(e, i, j) == i \in Range(e.idxs) /\ j \in Range(e.idxs)

\* Bucket entry e has more members than an enabled max_block_size.
Oversized(e) == args.max_block_size # 0 /\ Len(e.idxs) > args.max_block_size

\* Bucket entry e is one the claims call usable: two members or more, not oversized.
Usable(e) == Len(e.idxs) >= 2 /\ ~Oversized(e)

\* The main loop is past build_buckets.
Scoring == pc \in {"score", "done"}

\* |len_i - len_j| / max(len_i, len_j) > length_delta, without division.
RelDeltaAbove(i, j, delta) ==
    Abs(lengths[i + 1] - lengths[j + 1]) * delta[2]
        > delta[1] * Max(lengths[i + 1], lengths[j + 1])

\* The whole of main() after load_rows as one function of its inputs: the
\* final state of the scoring loop.
RunScore(rws, a, rf) ==
    LET norms == [i \in 1..Len(rws) |-> normalize_text(rws[i], a.strip_punct)]
        lens == [i \in 1..Len(rws) |-> Len(norms[i])]
        nums == [i \in 1..Len(rws) |-> i + 1]
        sigs == [i \in 1..Len(rws) |-> minhash_signature(norms[i], a.ngram, a.sig_size)]
        bs == build_buckets(sigs, lens, a.band_size, a.length_bucket)
    IN  ScoreBuckets(ScoreState({}, 0, 0, <<>>, <<>>), 1, bs, norms, lens, nums, rws, a, rf)

(***************************************************************************)
(* C1                                                                      *)
(***************************************************************************)
\* C1: normalize_text is idempotent for both values of strip_punct:
\* normalize_text(normalize_text(t, s), s) = normalize_text(t, s).
NormalizeIdempotent == nt_pc = 2 => nt_twice = nt_once

\* Idempotence when strip_punct is false (the part of C1 the code keeps).
NormalizeIdempotentNoStrip == (nt_pc = 2 /\ ~nt_flag) => nt_twice = nt_once

(***************************************************************************)
(* C2                                                                      *)
(***************************************************************************)
\* The reference set of C2: the pairs i < j that pass conditions (1) to (5).
ReferencePairs ==
    {pr \in {{i, j} : i \in Idx, j \in Idx} :
        \E i \in pr, j \in pr :
            /\ i < j
            /\ \E p \in 1..Len(buckets) : Holds(buckets[p], i, j) /\ Usable(buckets[p])
            /\ lengths[i + 1] >= args.min_length
            /\ lengths[j + 1] >= args.min_length
            /\ (args.include_identical \/ normalized[i + 1] # normalized[j + 1])
            /\ (args.length_delta[1] = 0 \/ ~RelDeltaAbove(i, j, args.length_delta))
            /\ ~FracLess(similarity_ratio(normalized[i + 1], normalized[j + 1],
                                          rapidfuzz_fuzz),
                         args.similarity_threshold)}

\* Records i and j have the same length class and the same values on the
\* complete band at offset o.
ShareBand(i, j, o) ==
    LET b == args.band_size
        L == args.length_bucket
        cls(k) == IF L # 0 THEN lengths[k + 1] \div L ELSE 0
    IN  /\ o % b = 0
        /\ o + b <= args.sig_size
        /\ cls(i) = cls(j)
        /\ Slice(signatures[i + 1], o, o + b) = Slice(signatures[j + 1], o, o + b)

\* C2: the similar-pairs output of a run is exactly the reference set, no
\* pair outside it is written at any point of the run, and two records that
\* share one band in the same length class are together in some bucket.
ReportedIsReference ==
    /\ ReportedPairs \subseteq ReferencePairs
    /\ pc = "done" => ReportedPairs = ReferencePairs
    /\ Scoring =>
         \A i \in Idx, j \in Idx, o \in 0..(args.sig_size - 1) :
             (i < j /\ ShareBand(i, j, o))
                 => \E p \in 1..Len(buckets) : Holds(buckets[p], i, j)

\* A finished run that reported a pair and left out another candidate pair.
WitnessReportedIsReference ==
    /\ pc = "done"
    /\ ReportedPairs # {}
    /\ \E p \in 1..Len(buckets), i \in Idx, j \in Idx :
           /\ i < j
           /\ Holds(buckets[p], i, j)
           /\ Usable(buckets[p])
           /\ {i, j} \notin ReportedPairs

(***************************************************************************)
(* C3                                                                      *)
(***************************************************************************)
\* C3: no unordered pair of record indices appears twice in the similar-pairs
\* output.
NoDuplicatePair ==
    \A p \in 1..Len(similar_rows), q \in 1..Len(similar_rows) :
        p # q => RowPair(similar_rows[p]) # RowPair(similar_rows[q])

\* A finished run that reported a pair held by two buckets that were both scored.
WitnessNoDuplicatePair ==
    /\ pc = "done"
    /\ \E r \in Range(similar_rows), p \in 1..Len(buckets), q \in 1..Len(buckets) :
           /\ p # q
           /\ Holds(buckets[p], r.idx_a, r.idx_b) /\ Usable(buckets[p])
           /\ Holds(buckets[q], r.idx_a, r.idx_b) /\ Usable(buckets[q])

(***************************************************************************)
(* C4                                                                      *)
(***************************************************************************)
\* Every bucket that holds both i and j is oversized.
OnlyOversized(i, j) ==
    \A p \in 1..Len(buckets) : Holds(buckets[p], i, j) => Oversized(buckets[p])

\* The pair i < j passes the per-pair filters and the threshold.
Qualifies(i, j) ==
    /\ lengths[i + 1] >= args.min_length
    /\ lengths[j + 1] >= args.min_length
    /\ (args.include_identical \/ normalized[i + 1] # normalized[j + 1])
    /\ (args.length_delta[1] = 0 \/ ~RelDeltaAbove(i, j, args.length_delta))
    /\ ~FracLess(similarity_ratio(normalized[i + 1], normalized[j + 1], rapidfuzz_fuzz),
                 args.similarity_threshold)

\* C4 as stated: no pair formed from the members of an oversized bucket is
\* in the similar-pairs output, whatever other bucket the pair shares.
OversizedBucketSilencesItsPairs ==
    \A p \in 1..Len(buckets), i \in Idx, j \in Idx :
        (i # j /\ Oversized(buckets[p]) /\ Holds(buckets[p], i, j))
            => {i, j} \notin ReportedPairs

\* C4 amended: an oversized bucket is skipped, so a pair whose shared buckets
\* are all oversized is never marked seen, compared or reported; a pair of an
\* oversized bucket is reported only through another bucket that is scored.
OversizedBucketSkipped ==
    /\ \A i \in Idx, j \in Idx :
           (Scoring /\ i < j /\ OnlyOversized(i, j))
               => /\ {i, j} \notin ReportedPairs
                  /\ <<i, j>> \notin Range(compared)
                  /\ PairId(i, j) \notin seen_pairs
    /\ \A p \in 1..Len(buckets), r \in Range(similar_rows) :
           (Oversized(buckets[p]) /\ Holds(buckets[p], r.idx_a, r.idx_b))
               => \E q \in 1..Len(buckets) :
                      q # p /\ Holds(buckets[q], r.idx_a, r.idx_b) /\ Usable(buckets[q])

\* A finished run with an oversized bucket of which one pair was reported
\* through another bucket and another, qualifying, pair was not reported.
WitnessOversizedBucketSkipped ==
    /\ pc = "done"
    /\ \E p \in 1..Len(buckets) :
           /\ Oversized(buckets[p])
           /\ \E i \in Idx, j \in Idx :
                  i < j /\ Holds(buckets[p], i, j) /\ {i, j} \in ReportedPairs
           /\ \E i \in Idx, j \in Idx :
                  /\ i < j
                  /\ Holds(buckets[p], i, j)
                  /\ OnlyOversized(i, j)
                  /\ Qualifies(i, j)

(***************************************************************************)
(* C5                                                                      *)
(***************************************************************************)
\* C5: a record shorter than min_length is in no call of similarity_ratio
\* and in no reported pair.
ShortNeverScored ==
    \A i \in Idx :
        (Scoring /\ lengths[i + 1] < args.min_length)
            => /\ \A c \in Range(compared) : i # c[1] /\ i # c[2]
               /\ \A r \in Range(similar_rows) : i \notin RowPair(r)

\* Bucket entry e holds a short record at an earlier position than a long one.
ShortBeforeLong(e) ==
    \E p \in 1..Len(e.idxs), q \in 1..Len(e.idxs) :
        /\ p < q
        /\ lengths[e.idxs[p] + 1] < args.min_length
        /\ lengths[e.idxs[q] + 1] >= args.min_length

\* Bucket entry e holds a long record at an earlier position than a short one.
LongBeforeShort(e) ==
    \E p \in 1..Len(e.idxs), q \in 1..Len(e.idxs) :
        /\ p < q
        /\ lengths[e.idxs[p] + 1] >= args.min_length
        /\ lengths[e.idxs[q] + 1] < args.min_length

\* A finished run that scored a bucket holding a short record both as the
\* first and as the second member of a pair, and made a comparison.
WitnessShortNeverScored ==
    /\ pc = "done"
    /\ compare_count > 0
    /\ \E p \in 1..Len(buckets) :
           Usable(buckets[p]) /\ ShortBeforeLong(buckets[p]) /\ LongBeforeShort(buckets[p])

(***************************************************************************)
(* C6                                                                      *)
(***************************************************************************)
\* C6: with length_delta enabled, no reported pair has a relative length
\* difference above length_delta.
LengthDeltaRespected ==
    args.length_delta[1] # 0
        => \A r \in Range(similar_rows) : ~RelDeltaAbove(r.idx_a, r.idx_b, args.length_delta)

\* A finished run with length_delta enabled that reported a pair of different
\* lengths and rejected a scored bucket's pair, which meets the threshold,
\* for its lengths.
WitnessLengthDeltaRespected ==
    /\ pc = "done"
    /\ args.length_delta[1] # 0
    /\ \E r \in Range(similar_rows) : lengths[r.idx_a + 1] # lengths[r.idx_b + 1]
    /\ \E p \in 1..Len(buckets), i \in Idx, j \in Idx :
           /\ i < j
           /\ Usable(buckets[p])
           /\ Holds(buckets[p], i, j)
           /\ RelDeltaAbove(i, j, args.length_delta)
           /\ lengths[i + 1] >= args.min_length
           /\ lengths[j + 1] >= args.min_length
           /\ ~FracLess(similarity_ratio(normalized[i + 1], normalized[j + 1],
                                         rapidfuzz_fuzz),
                        args.similarity_threshold)

(***************************************************************************)
(* C7                                                                      *)
(***************************************************************************)
\* The exact-duplicate report is written.
PastExact == pc \in {"signatures", "buckets", "score", "done"}

\* Records i and j are written to exact_duplicates.csv under one group id.
SameGroup(i, j) ==
    \E p \in 1..Len(exact_rows), q \in 1..Len(exact_rows) :
        /\ exact_rows[p].idx = i
        /\ exact_rows[q].idx = j
        /\ exact_rows[p].group_id = exact_rows[q].group_id

\* C7: with include_identical false no reported pair has equal normalized
\* texts; records of equal non-empty normalized text are in the
\* exact-duplicate report instead.
IdenticalOnlyInExactReport ==
    ~args.include_identical
        => /\ \A r \in Range(similar_rows) :
                  normalized[r.idx_a + 1] # normalized[r.idx_b + 1]
           /\ PastExact =>
                  \A i \in Idx, j \in Idx :
                      (i < j /\ normalized[i + 1] = normalized[j + 1]
                             /\ Len(normalized[i + 1]) > 0)
                          => SameGroup(i, j)

\* A finished run with include_identical false in which two rows whose raw
\* texts differ only in whitespace, long enough, shared a scored bucket.
WitnessIdenticalOnlyInExactReport ==
    /\ pc = "done"
    /\ ~args.include_identical
    /\ \E p \in 1..Len(buckets), i \in Idx, j \in Idx :
           /\ i < j
           /\ Usable(buckets[p])
           /\ Holds(buckets[p], i, j)
           /\ texts[i + 1] # texts[j + 1]
           /\ normalized[i + 1] = normalized[j + 1]
           /\ lengths[i + 1] >= args.min_length
           /\ PairId(i, j) \in seen_pairs

(***************************************************************************)
(* C8                                                                      *)
(***************************************************************************)
\* The command line with another --similarity-threshold.
WithThreshold(t) == [args EXCEPT !.similarity_threshold = t]

\* C8: the run's output is that of RunScore on its inputs, and a run on the
\* same inputs with a threshold that is not lower reports a subset of it.
ThresholdMonotone ==
    pc = "done"
        => /\ similar_rows = RunScore(rows, args, rapidfuzz_fuzz).similar_rows
           /\ \A t \in Thresholds :
                  ~FracLess(t, args.similarity_threshold)
                      => LET other == RunScore(rows, WithThreshold(t), rapidfuzz_fuzz)
                         IN  /\ PairsOf(other.similar_rows) \subseteq ReportedPairs
                             /\ other.similar_count <= similar_count

\* A finished run for which a higher threshold reports fewer pairs, but some.
WitnessThresholdMonotone ==
    /\ pc = "done"
    /\ \E t \in Thresholds :
           /\ FracLess(args.similarity_threshold, t)
           /\ LET other == RunScore(rows, WithThreshold(t), rapidfuzz_fuzz)
              IN  /\ other.similar_count > 0
                  /\ other.similar_count < similar_count

(***************************************************************************)
(* C9                                                                      *)
(***************************************************************************)
\* C9: two distinct records of non-empty normalized text are written under
\* the same group id iff their normalized texts are equal, and no record is
\* written twice.
ExactGroupingSoundComplete ==
    PastExact
        => /\ \A i \in Idx, j \in Idx :
                  (i # j /\ Len(normalized[i + 1]) > 0 /\ Len(normalized[j + 1]) > 0)
                      => (SameGroup(i, j) <=> normalized[i + 1] = normalized[j + 1])
           /\ \A p \in 1..Len(exact_rows), q \in 1..Len(exact_rows) :
                  p # q => exact_rows[p].idx # exact_rows[q].idx

\* The report holds a group, and a record of another non-empty text is left out.
WitnessExactGroupingSoundComplete ==
    /\ PastExact
    /\ exact_rows # <<>>
    /\ \E i \in Idx :
           /\ Len(normalized[i + 1]) > 0
           /\ \A r \in Range(exact_rows) : r.idx # i

(***************************************************************************)
(* C10                                                                     *)
(***************************************************************************)
\* The rows written for group g.
RowsOfGroup(g) == {p \in 1..Len(exact_rows) : exact_rows[p].group_id = g}

\* C10: every group has two members or more, count_in_group is the number of
\* rows written for the group, and no record of empty normalized text is
\* written.
ExactGroupsWellFormed ==
    \A r \in Range(exact_rows) :
        /\ Cardinality(RowsOfGroup(r.group_id)) >= 2
        /\ r.count_in_group = Cardinality(RowsOfGroup(r.group_id))
        /\ Len(normalized[r.idx + 1]) > 0

\* The report holds a group while a record of empty normalized text exists.
WitnessExactGroupsWellFormed ==
    /\ PastExact
    /\ exact_rows # <<>>
    /\ \E i \in Idx : Len(normalized[i + 1]) = 0

(***************************************************************************)
(* main() up to the exact-duplicate report, on more rows.                  *)
(***************************************************************************)
\* Largest number of CSV rows of a run that stops after the exact report.
MaxExactRecords == 5

\* The state after parse_args() and load_rows() for a command line of cfgs,
\* a similarity back end of backends and rows of inputs.
MainStart(cfgs, backends, inputs) ==
    /\ pc = "normalize"
    /\ args \in cfgs
    /\ rapidfuzz_fuzz \in backends
    /\ rows \in inputs
    /\ texts = <<>>
    /\ normalized = <<>>
    /\ lengths = <<>>
    /\ row_nums = <<>>
    /\ exact_map = <<>>
    /\ exact_rows = <<>>
    /\ signatures = <<>>
    /\ buckets = <<>>
    /\ bucket_pos = 0
    /\ seen_pairs = {}
    /\ compare_count = 0
    /\ similar_count = 0
    /\ compared = <<>>
    /\ similar_rows = <<>>
    /\ NtIdle
    /\ SgIdle
    /\ TrIdle

ExactInit ==
    MainStart({DefaultArgs, PermissiveArgs}, {FALSE},
              SeqsUpTo(TextPool, MaxExactRecords))

\* Lines 177-233.
ExactNext == NormalizeRows \/ GroupExact \/ WriteExact

SpecExact == ExactInit /\ [][ExactNext]_vars

(***************************************************************************)
(* C11                                                                     *)
(***************************************************************************)
\* The group ids written.
GroupIds == {exact_rows[p].group_id : p \in 1..Len(exact_rows)}

\* The records whose normalized text is that of record i.
SameText(i) == {j \in Idx : normalized[j + 1] = normalized[i + 1]}

\* The records that open a group: the first of two or more records of one
\* non-empty normalized text.
GroupOpeners ==
    {i \in Idx : /\ Len(normalized[i + 1]) > 0
                 /\ Cardinality(SameText(i)) >= 2
                 /\ \A j \in SameText(i) : i <= j}

\* The group id under which record i is written.
GroupOf(i) == (CHOOSE r \in Range(exact_rows) : r.idx = i).group_id

\* C11: the group ids are 1..G, one per text that occurs twice or more,
\* increasing with the input position of the group's first member, and the
\* rows are written group by group, members in increasing input order.
GroupIdsSequential ==
    PastExact
        => /\ GroupIds = 1..Cardinality(GroupOpeners)
           /\ \A i \in GroupOpeners, j \in GroupOpeners :
                  i < j => GroupOf(i) < GroupOf(j)
           /\ \A p \in 1..Len(exact_rows), q \in 1..Len(exact_rows) :
                  p < q
                      => \/ exact_rows[p].group_id < exact_rows[q].group_id
                         \/ /\ exact_rows[p].group_id = exact_rows[q].group_id
                            /\ exact_rows[p].idx < exact_rows[q].idx

\* A report of two groups whose members alternate in the input, after a
\* record whose text occurs once.
WitnessGroupIdsSequential ==
    /\ PastExact
    /\ \E i \in Idx, j \in Idx, k \in Idx, l \in Idx, m \in Idx :
           /\ m < i /\ i < j /\ j < k /\ k < l
           /\ Len(normalized[m + 1]) > 0
           /\ SameText(m) = {m}
           /\ SameGroup(i, k)
           /\ SameGroup(j, l)
           /\ GroupOf(i) = 1
           /\ GroupOf(j) = 2

(***************************************************************************)
(* minhash_signature called on its own.                                    *)
(***************************************************************************)
MaxSigTextLen == 5
MaxNgram == 3
MaxSigSize == 3

\* Code points of the texts sketched: a, b, c and HIRAGANA LETTER A (three
\* bytes in UTF-8).
SigAlphabet == {97, 98, 99, 12354}

SigInit ==
    /\ MainIdle
    /\ NtIdle
    /\ TrIdle
    /\ sg_text \in SeqsUpTo(SigAlphabet, MaxSigTextLen)
    /\ sg_n \in 1..MaxNgram
    /\ sg_k \in 1..MaxSigSize
    /\ sg_order = <<>>
    /\ sg_out = <<>>
    /\ sg_again = <<>>
    /\ sg_pc = 0

\* sig = minhash_signature(text, ngram_size, signature_size)
Sketch ==
    /\ sg_pc = 0
    /\ sg_out' = minhash_signature(sg_text, sg_n, sg_k)
    /\ sg_pc' = 1
    /\ UNCHANGED <<sg_text, sg_n, sg_k, sg_order, sg_again>>
    /\ UNCHANGED <<mainVars, ntVars, trVars>>

SigNext == Sketch

SpecSig == SigInit /\ [][SigNext]_vars

\* The hash values of the n-grams of the sketched text.
GramHashes == {adler32_hash(g) : g \in Grams(sg_text, sg_n)}

\* The sketched text has n-grams.
HasGrams == Len(sg_text) >= sg_n

(***************************************************************************)
(* C12                                                                     *)
(***************************************************************************)
\* v is an unsigned 32-bit integer, as <<high half, low half>>.
IsUint32(v) == v \in (0..65535) \X (0..65535)

\* C12: in every branch the signature has exactly signature_size entries,
\* each an unsigned 32-bit integer.
SignatureLength ==
    sg_pc = 1
        => /\ Len(sg_out) = sg_k
           /\ \A j \in 1..Len(sg_out) : IsUint32(sg_out[j])

\* Two n-grams tiled into three slots: the tiled list of four is cut.
WitnessSignatureLength ==
    /\ sg_pc = 1
    /\ HasGrams
    /\ Cardinality(Grams(sg_text, sg_n)) = 2
    /\ sg_k = 3
    /\ Len(sg_out) = 3

(***************************************************************************)
(* C13                                                                     *)
(***************************************************************************)
\* The k smallest values of the set hs, ascending.
RECURSIVE SmallestOf(_, _)
SmallestOf(hs, k) ==
    IF k = 0 \/ hs = {} THEN <<>>
    ELSE LET h == CHOOSE x \in hs : \A y \in hs : HashLeq(x, y)
         IN  <<h>> \o SmallestOf(hs \ {h}, k - 1)

\* C13: with at least k distinct n-gram hash values, the signature is the k
\* smallest distinct values in ascending order.
BottomKDistinct ==
    (sg_pc = 1 /\ HasGrams /\ Cardinality(GramHashes) >= sg_k)
        => sg_out = SmallestOf(GramHashes, sg_k)

(***************************************************************************)
(* C14                                                                     *)
(***************************************************************************)
\* C14: with fewer sorted hashes than slots, slot j holds H[j mod m].
CyclicRepeat ==
    LET H == SortedHashes(Grams(sg_text, sg_n))
    IN  (sg_pc = 1 /\ HasGrams /\ Len(H) < sg_k)
            => \A j \in 0..(sg_k - 1) : sg_out[j + 1] = H[(j % Len(H)) + 1]

\* Two different hashes in three slots: the last slot holds the smallest
\* again.
WitnessCyclicRepeat ==
    LET H == SortedHashes(Grams(sg_text, sg_n))
    IN  /\ sg_pc = 1
        /\ HasGrams
        /\ Len(H) = 2
        /\ H[1] # H[2]
        /\ sg_k = 3
        /\ sg_out = <<H[1], H[2], H[1]>>

(***************************************************************************)
(* C15                                                                     *)
(***************************************************************************)
\* C15: the empty text gives k zeros, a non-empty text shorter than an
\* n-gram gives k times the hash of the whole text.
DegenerateSignature ==
    sg_pc = 1
        => /\ Len(sg_text) = 0 => sg_out = [j \in 1..sg_k |-> ZeroHash]
           /\ (Len(sg_text) > 0 /\ Len(sg_text) < sg_n)
                  => sg_out = [j \in 1..sg_k |-> adler32_hash(sg_text)]

\* A text of two characters under 3-grams, in two slots.
WitnessDegenerateSignature ==
    /\ sg_pc = 1
    /\ Len(sg_text) = 2
    /\ sg_n = 3
    /\ sg_k = 2
    /\ sg_out = <<adler32_hash(sg_text), adler32_hash(sg_text)>>
    /\ sg_out[1] # ZeroHash

(***************************************************************************)
(* minhash_signature called twice, each call iterating the set of n-grams  *)
(* in an order of its own: the order of a set of str depends on the hash   *)
(* seed of the process.                                                    *)
(***************************************************************************)
MaxOrderTextLen == 4
MaxOrderNgram == 2

OrderAlphabet == {97, 98, 99}

\* The orders in which a loop over the set S can visit it.
IterationOrders(S) ==
    {o \in [1..Cardinality(S) -> S] :
         \A i \in 1..Cardinality(S), j \in 1..Cardinality(S) :
             i # j => o[i] # o[j]}

\* adler32_hash(g) for g in grams, with grams visited in the given order.
HashesInOrder(order) == [i \in 1..Len(order) |-> adler32_hash(order[i])]

\* h put into the ascending list, behind the entries equal to it.
RECURSIVE InsertSorted(_, _)
InsertSorted(list, h) ==
    IF Len(list) = 0 THEN <<h>>
    ELSE IF HashLeq(list[1], h) THEN <<list[1]>> \o InsertSorted(Tail(list), h)
    ELSE <<h>> \o list

\* The list left as the loop produced it.
SortedAsIs(list) == list

\* sorted(list)
RECURSIVE Sorted(_)
Sorted(list) ==
    IF Len(list) = 0 THEN <<>>
    ELSE InsertSorted(Sorted(SubSeq(list, 1, Len(list) - 1)), list[Len(list)])

\* minhash_signature with the set of line 37 visited in the given order.
SignatureInOrder(text, ngram_size, signature_size, order) ==
    IF Len(text) = 0 THEN Repeat(ZeroHash, signature_size)
    ELSE IF Len(text) < ngram_size
    THEN IF Encodable(text) THEN Repeat(adler32_hash(text), signature_size)
         ELSE <<EncodeError>>
    ELSE IF \E g \in Grams(text, ngram_size) : ~Encodable(g) THEN <<EncodeError>>
    ELSE LET hashes == Sorted(HashesInOrder(order))
         IN  IF Len(hashes) = 0 THEN Repeat(ZeroHash, signature_size)
             ELSE IF Len(hashes) < signature_size
             THEN LET repeats == (signature_size + Len(hashes) - 1) \div Len(hashes)
                      tiled == [i \in 1..(Len(hashes) * repeats) |->
                                    hashes[((i - 1) % Len(hashes)) + 1]]
                  IN  Slice(tiled, 0, signature_size)
             ELSE Slice(hashes, 0, signature_size)

OrderInit ==
    /\ MainIdle
    /\ NtIdle
    /\ TrIdle
    /\ sg_text \in SeqsUpTo(OrderAlphabet, MaxOrderTextLen)
    /\ sg_n \in 1..MaxOrderNgram
    /\ sg_k \in 1..MaxSigSize
    /\ sg_order = <<>>
    /\ sg_out = <<>>
    /\ sg_again = <<>>
    /\ sg_pc = 0

\* A first call.
SketchInOrder ==
    /\ sg_pc = 0
    /\ \E order \in IterationOrders(Grams(sg_text, sg_n)) :
           /\ sg_out' = SignatureInOrder(sg_text, sg_n, sg_k, order)
           /\ sg_order' = <<order>>
    /\ sg_pc' = 1
    /\ UNCHANGED <<sg_text, sg_n, sg_k, sg_again>>
    /\ UNCHANGED <<mainVars, ntVars, trVars>>

\* A later call with the same arguments, in this process or another one.
SketchAgain ==
    /\ sg_pc = 1
    /\ \E order \in IterationOrders(Grams(sg_text, sg_n)) :
           /\ sg_again' = SignatureInOrder(sg_text, sg_n, sg_k, order)
           /\ sg_order' = Append(sg_order, order)
    /\ sg_pc' = 2
    /\ UNCHANGED <<sg_text, sg_n, sg_k, sg_out>>
    /\ UNCHANGED <<mainVars, ntVars, trVars>>

OrderNext == SketchInOrder \/ SketchAgain

SpecSigOrder == OrderInit /\ [][OrderNext]_vars

(***************************************************************************)
(* C16                                                                     *)
(***************************************************************************)
\* C16: two calls with the same arguments return the same signature, in
\* whatever order each of them visits the set of n-grams.
SignatureDeterministic == sg_pc = 2 => sg_again = sg_out

\* Two calls that visited n-grams of different hashes in different orders,
\* the first one not in ascending order of the hashes.
WitnessSignatureDeterministic ==
    /\ sg_pc = 2
    /\ sg_order[1] # sg_order[2]
    /\ HashesInOrder(sg_order[1]) # Sorted(HashesInOrder(sg_order[1]))
    /\ sg_again = sg_out

(***************************************************************************)
(* main() up to build_buckets, over band layouts.                          *)
(***************************************************************************)
MaxBucketRecords == 2

\* Command lines with every signature size and band size up to MaxSigSize,
\* 1-grams and 2-grams, without and with length classes.
BucketConfigs ==
    {[PermissiveArgs EXCEPT !.ngram = n, !.sig_size = k, !.band_size = b,
                            !.length_bucket = l] :
         n \in 1..2, k \in 1..MaxSigSize, b \in 1..MaxSigSize, l \in {0, 2}}

BucketInit ==
    MainStart(BucketConfigs, {FALSE}, SeqsUpTo(TextPool, MaxBucketRecords))

\* Lines 177-240.
BucketNext ==
    NormalizeRows \/ GroupExact \/ WriteExact \/ ComputeSignatures \/ BuildBuckets

SpecBuckets == BucketInit /\ [][BucketNext]_vars

(***************************************************************************)
(* C17                                                                     *)
(***************************************************************************)
\* The offsets of the complete bands of a signature of k hashes.
BandStarts(k, b) == {o \in 0..(k - 1) : o % b = 0 /\ o + b <= k}

\* The keys under which record i belongs.
KeysOf(i) ==
    LET c == IF args.length_bucket # 0
             THEN lengths[i + 1] \div args.length_bucket
             ELSE 0
    IN  {<<c, o, [q \in 1..args.band_size |-> signatures[i + 1][o + q]]>> :
             o \in BandStarts(args.sig_size, args.band_size)}

\* How often record i is listed in bucket p.
Listed(p, i) ==
    Cardinality({q \in 1..Len(buckets[p].idxs) : buckets[p].idxs[q] = i})

\* C17: each record is listed once in the bucket of each of its keys and in
\* no other bucket: in floor(k / b) buckets.
BucketsOfRecord ==
    pc = "score"
        => /\ \A p \in 1..Len(buckets), q \in 1..Len(buckets) :
                  buckets[p].key = buckets[q].key => p = q
           /\ \A i \in Idx :
                  /\ \A p \in 1..Len(buckets) :
                         Listed(p, i) = IF buckets[p].key \in KeysOf(i) THEN 1 ELSE 0
                  /\ \A key \in KeysOf(i) :
                         \E p \in 1..Len(buckets) : buckets[p].key = key
                  /\ Cardinality({p \in 1..Len(buckets) : Listed(p, i) > 0})
                         = args.sig_size \div args.band_size

\* Signatures of three hashes in bands of two: each of two records is in one
\* bucket, the same one, and the third hash is in no key.
WitnessBucketsOfRecord ==
    /\ pc = "score"
    /\ args.sig_size = 3
    /\ args.band_size = 2
    /\ Len(signatures) = 2
    /\ Len(buckets) = 1
    /\ buckets[1].idxs = <<0, 1>>
    /\ buckets[1].key[2] = 0
    /\ Len(buckets[1].key[3]) = 2

(***************************************************************************)
(* main() on command lines that parse_args accepts although their values   *)
(* make no sense.                                                          *)
(***************************************************************************)
MaxConfigRecords == 2

\* --similarity-threshold 1.5, --band-size 3 with --sig-size 2, --ngram 0,
\* and the permissive command line.
OddConfigs ==
    {PermissiveArgs,
     [PermissiveArgs EXCEPT !.similarity_threshold = <<3, 2>>],
     [PermissiveArgs EXCEPT !.band_size = 3],
     [PermissiveArgs EXCEPT !.ngram = 0]}

ConfigInit == MainStart(OddConfigs, BOOLEAN, SeqsUpTo(TextPool, MaxConfigRecords))

\* Lines 168-322: parse_args() has no check of its own (type=float and
\* type=int only), and main() has none before the loop of line 177.
SpecConfig == ConfigInit /\ [][Next]_vars

(***************************************************************************)
(* C18                                                                     *)
(***************************************************************************)
\* A command line of a threshold outside [0, 1], of bands longer than the
\* signature, or of n-grams of less than one character.
InvalidConfig ==
    \/ FracLess(args.similarity_threshold, <<0, 1>>)
    \/ FracGreater(args.similarity_threshold, <<1, 1>>)
    \/ args.band_size > args.sig_size
    \/ args.ngram < 1

\* C18: a run with an invalid command line processes no record and
\* produces no report.
InvalidConfigFailsFast ==
    InvalidConfig => (texts = <<>> /\ pc # "done")

(***************************************************************************)
(* The per-record computations of main() on one value of the column:       *)
(* normalize_text, then minhash_signature of the normalized text.          *)
(***************************************************************************)
MaxRecordTextLen == 3

\* a, SPACE, IDEOGRAPHIC SPACE, and the lone surrogate U+D800, which a str
\* can hold (a CSV read with --encoding unicode_escape yields it from the
\* six characters \ud800).
RecordAlphabet == {97, 32, 12288, 55296}

RecordInit ==
    /\ MainIdle
    /\ TrIdle
    /\ nt_in \in SeqsUpTo(RecordAlphabet, MaxRecordTextLen) \cup {None}
    /\ nt_flag \in BOOLEAN
    /\ nt_once = <<>>
    /\ nt_twice = <<>>
    /\ nt_pc = 0
    /\ sg_text = <<>>
    /\ sg_n \in 1..MaxNgram
    /\ sg_k \in 1..MaxSigSize
    /\ sg_order = <<>>
    /\ sg_out = <<>>
    /\ sg_again = <<>>
    /\ sg_pc = 0

\* Line 236: the signature of the normalized text.
SketchRecord ==
    /\ nt_pc = 1
    /\ sg_pc = 0
    /\ sg_text' = nt_once
    /\ sg_out' = minhash_signature(nt_once, sg_n, sg_k)
    /\ sg_pc' = 1
    /\ UNCHANGED <<sg_n, sg_k, sg_order, sg_again>>
    /\ UNCHANGED <<mainVars, ntVars, trVars>>

RecordNext == NormalizeOnce \/ SketchRecord

SpecRecord == RecordInit /\ [][RecordNext]_vars

(***************************************************************************)
(* C19                                                                     *)
(***************************************************************************)
\* C19: normalize_text returns a text for every input, the empty text for
\* the empty text and for None, and minhash_signature returns a signature
\* of the normalized text.
PerRecordTotal ==
    /\ nt_pc >= 1
           => /\ nt_once # None
              /\ nt_in \in {<<>>, None} => nt_once = <<>>
    /\ sg_pc = 1
           => /\ sg_out # <<EncodeError>>
              /\ Len(sg_out) = sg_k

(***************************************************************************)
(* truncate_text called on its own.                                        *)
(***************************************************************************)
MaxTruncLen == 4

\* a and FULL STOP.
TruncAlphabet == {97, 46}

TruncInit ==
    /\ MainIdle
    /\ NtIdle
    /\ SgIdle
    /\ tr_text \in SeqsUpTo(TruncAlphabet, MaxTruncLen)
    /\ tr_max \in {<<>>} \cup {<<n>> : n \in (-1)..MaxTruncLen}
    /\ tr_out = <<>>
    /\ tr_pc = 0

\* truncate_text(text, args.text_max_len)
Truncate ==
    /\ tr_pc = 0
    /\ tr_out' = truncate_text(tr_text, tr_max)
    /\ tr_pc' = 1
    /\ UNCHANGED <<tr_text, tr_max>>
    /\ UNCHANGED <<mainVars, ntVars, sgVars>>

TruncNext == Truncate

SpecTrunc == TruncInit /\ [][TruncNext]_vars

(***************************************************************************)
(* C20                                                                     *)
(***************************************************************************)
\* max_len is a positive integer.
PositiveMax == tr_max # <<>> /\ tr_max[1] > 0

\* C20: with a positive max_len a longer text becomes its first max_len
\* characters and "...", a text of at most max_len characters is returned
\* as it is, as is every text when max_len is None or not positive; with a
\* positive max_len the result is longer than max_len exactly when the text
\* was cut.
TruncateMarks ==
    tr_pc = 1
        => /\ (PositiveMax /\ Len(tr_text) > tr_max[1])
                  => tr_out = [i \in 1..(tr_max[1] + 3) |->
                                   IF i <= tr_max[1] THEN tr_text[i] ELSE 46]
           /\ (PositiveMax /\ Len(tr_text) <= tr_max[1]) => tr_out = tr_text
           /\ ~PositiveMax => tr_out = tr_text
           /\ PositiveMax => (Len(tr_out) > tr_max[1] <=> Len(tr_text) > tr_max[1])

\* A text of three characters cut to two, and a marker behind them.
WitnessTruncateMarks ==
    /\ tr_pc = 1
    /\ tr_max = <<2>>
    /\ Len(tr_text) = 3
    /\ tr_out = <<tr_text[1], tr_text[2], 46, 46, 46>>

(***************************************************************************)
(* main() over the options of the candidate filters.                       *)
(***************************************************************************)
MaxPairRecords == 3

\* Command lines at threshold 0.5 and min_length 0 on one-character n-grams
\* in two bands of one hash: every combination of length_delta,
\* length_bucket, max_block_size and include_identical.
PairConfigs ==
    {[PermissiveArgs EXCEPT !.length_delta = d, !.length_bucket = l,
                            !.max_block_size = x, !.include_identical = ii] :
         d \in {<<0, 1>>, <<1, 2>>}, l \in {0, 2}, x \in {0, 2}, ii \in BOOLEAN}

\* Raw texts of the rows: "", "a", "b", "ab", "ab " (equal to "ab" once
\* normalized), "ba", and "ababa", of the characters of "ab" and more than
\* twice its length.
PairPool ==
    {<<>>, <<97>>, <<98>>, <<97, 98>>, <<97, 98, 32>>, <<98, 97>>,
     <<97, 98, 97, 98, 97>>}

PairInit == MainStart(PairConfigs, {FALSE}, SeqsUpTo(PairPool, MaxPairRecords))

SpecPairs == PairInit /\ [][Next]_vars

\* The buckets the scoring loop has been through.
Visited == 1..bucket_pos

(***************************************************************************)
(* C21                                                                     *)
(***************************************************************************)
\* The pair with id pid is rejected by the identical-text or length-delta
\* guard.
FilterRejects(pid) ==
    \/ IdenticalSkipped(args.include_identical,
                        normalized[pid[1] + 1], normalized[pid[2] + 1])
    \/ LengthDeltaExceeded(lengths[pid[1] + 1], lengths[pid[2] + 1],
                           args.length_delta)

\* C21: after every bucket, each comparison made is of another pair, of a
\* pair marked seen that shares a bucket scored so far; compare_count counts
\* the comparisons and is at most the number of pairs marked seen; a pair
\* marked seen and rejected by the identical-text or length-delta guard is
\* never compared.
ScoredAtMostOnce ==
    Scoring
        => /\ compare_count = Len(compared)
           /\ compare_count <= Cardinality(seen_pairs)
           /\ \A x \in 1..Len(compared), y \in 1..Len(compared) :
                  x # y => PairId(compared[x][1], compared[x][2])
                               # PairId(compared[y][1], compared[y][2])
           /\ \A c \in Range(compared) :
                  /\ PairId(c[1], c[2]) \in seen_pairs
                  /\ \E p \in Visited :
                         Holds(buckets[p], c[1], c[2]) /\ Usable(buckets[p])
           /\ \A pid \in seen_pairs :
                  FilterRejects(pid)
                      => \A c \in Range(compared) : PairId(c[1], c[2]) # pid

\* A finished run in which two scored buckets hold a pair that was compared
\* and a pair that the length-delta guard rejected.
WitnessScoredAtMostOnce ==
    /\ pc = "done"
    /\ \E c \in Range(compared), p \in 1..Len(buckets), q \in 1..Len(buckets) :
           /\ p # q
           /\ Holds(buckets[p], c[1], c[2]) /\ Usable(buckets[p])
           /\ Holds(buckets[q], c[1], c[2]) /\ Usable(buckets[q])
    /\ \E pid \in seen_pairs, p \in 1..Len(buckets), q \in 1..Len(buckets) :
           /\ p # q
           /\ LengthDeltaExceeded(lengths[pid[1] + 1], lengths[pid[2] + 1],
                                  args.length_delta)
           /\ Holds(buckets[p], pid[1], pid[2]) /\ Usable(buckets[p])
           /\ Holds(buckets[q], pid[1], pid[2]) /\ Usable(buckets[q])

(***************************************************************************)
(* C22                                                                     *)
(***************************************************************************)
\* C22: the index list of every bucket is strictly increasing, and every
\* reported pair has the record of the smaller index, and row number, first.
BucketsInInputOrder ==
    /\ \A p \in 1..Len(buckets) :
           \A x \in 1..Len(buckets[p].idxs), y \in 1..Len(buckets[p].idxs) :
               x < y => buckets[p].idxs[x] < buckets[p].idxs[y]
    /\ \A r \in Range(similar_rows) :
           r.idx_a < r.idx_b /\ r.row_num_a < r.row_num_b

\* A finished run with a bucket of three records and a reported pair.
WitnessBucketsInInputOrder ==
    /\ pc = "done"
    /\ \E p \in 1..Len(buckets) : buckets[p].idxs = <<0, 1, 2>>
    /\ similar_rows # <<>>

(***************************************************************************)
(* C23                                                                     *)
(***************************************************************************)
\* The first scored bucket that holds both records of the row r.
FirstBucket(r) ==
    CHOOSE p \in 1..Len(buckets) :
        /\ Holds(buckets[p], r.idx_a, r.idx_b) /\ Usable(buckets[p])
        /\ \A q \in 1..(p - 1) :
               ~(Holds(buckets[q], r.idx_a, r.idx_b) /\ Usable(buckets[q]))

\* <<x1, x2, x3>> is before <<y1, y2, y3>> in lexicographic order.
LexLess(x, y) ==
    \/ x[1] < y[1]
    \/ x[1] = y[1] /\ x[2] < y[2]
    \/ x[1] = y[1] /\ x[2] = y[2] /\ x[3] < y[3]

\* C23: the buckets are in the order in which the scan over records and
\* bands created their keys, and the rows are in the order of the first
\* scored bucket of their pair, then of idx_a, then of idx_b.
EmissionOrder ==
    Scoring
        => /\ \A p \in 1..Len(buckets), q \in 1..Len(buckets) :
                  p < q => LexLess(<<buckets[p].idxs[1], buckets[p].key[2], 0>>,
                                   <<buckets[q].idxs[1], buckets[q].key[2], 0>>)
           /\ \A x \in 1..Len(similar_rows), y \in 1..Len(similar_rows) :
                  x < y
                      => LexLess(<<FirstBucket(similar_rows[x]),
                                   similar_rows[x].idx_a, similar_rows[x].idx_b>>,
                                 <<FirstBucket(similar_rows[y]),
                                   similar_rows[y].idx_a, similar_rows[y].idx_b>>)

\* A finished run that wrote three pairs, two of them out of one bucket and
\* two out of different buckets, one of which a later scored bucket holds
\* too.
WitnessEmissionOrder ==
    /\ pc = "done"
    /\ Len(similar_rows) >= 3
    /\ \E x \in 1..Len(similar_rows), y \in 1..Len(similar_rows) :
           /\ FirstBucket(similar_rows[x]) = FirstBucket(similar_rows[y])
           /\ x < y
    /\ \E x \in 1..Len(similar_rows), y \in 1..Len(similar_rows) :
           FirstBucket(similar_rows[x]) < FirstBucket(similar_rows[y])
    /\ \E r \in Range(similar_rows), q \in 1..Len(buckets) :
           /\ q > FirstBucket(r)
           /\ Holds(buckets[q], r.idx_a, r.idx_b) /\ Usable(buckets[q])

(***************************************************************************)
(* main() over the options of the per-pair guards.                         *)
(***************************************************************************)
MaxChainRecords == 3

\* Raw texts of the rows: "a", "ab", "ab ", "ba", "ababa".
ChainPool ==
    {<<97>>, <<97, 98>>, <<97, 98, 32>>, <<98, 97>>, <<97, 98, 97, 98, 97>>}

\* Command lines at threshold 0.5: every combination of min_length,
\* length_delta and include_identical.
ChainConfigs ==
    {[PermissiveArgs EXCEPT !.min_length = m, !.length_delta = d,
                            !.include_identical = ii] :
         m \in {0, 2}, d \in {<<0, 1>>, <<1, 2>>}, ii \in BOOLEAN}

ChainInit == MainStart(ChainConfigs, {FALSE}, SeqsUpTo(ChainPool, MaxChainRecords))

SpecChain == ChainInit /\ [][Next]_vars

(***************************************************************************)
(* C24                                                                     *)
(***************************************************************************)
\* The orders of the four guards.
ChainOrders == IterationOrders({"min_length", "seen", "identical", "delta"})

\* The pairs of positions i < j of a list of n members, i ascending, then j.
PositionPairs(n) ==
    SelectSeq([k \in 1..(n * n) |-> <<((k - 1) \div n) + 1, ((k - 1) % n) + 1>>],
              LAMBDA q : q[1] < q[2])

\* The candidate pairs of the run in the order of the loops, from bucket p.
RECURSIVE CandidatesFrom(_)
CandidatesFrom(p) ==
    IF p > Len(buckets) THEN <<>>
    ELSE IF BucketSkipped(buckets[p].idxs, args.max_block_size)
    THEN CandidatesFrom(p + 1)
    ELSE LET idxs == buckets[p].idxs
             pos == PositionPairs(Len(idxs))
         IN  [k \in 1..Len(pos) |-> <<idxs[pos[k][1]], idxs[pos[k][2]]>>]
                 \o CandidatesFrom(p + 1)

\* The guard g rejects the pair c when the pairs of seen are marked.
GuardRejects(g, c, seen) ==
    CASE g = "min_length" -> \/ TooShort(lengths[c[1] + 1], args.min_length)
                             \/ TooShort(lengths[c[2] + 1], args.min_length)
      [] g = "seen" -> AlreadySeen(PairId(c[1], c[2]), seen)
      [] g = "identical" -> IdenticalSkipped(args.include_identical,
                                             normalized[c[1] + 1], normalized[c[2] + 1])
      [] g = "delta" -> LengthDeltaExceeded(lengths[c[1] + 1], lengths[c[2] + 1],
                                            args.length_delta)

\* One pair through the guards in the given order. The pair is marked seen
\* when it passes the seen guard, or, with late, when it passes all guards.
ChainPair(order, late, st, c) ==
    LET rej == {k \in 1..4 : GuardRejects(order[k], c, st.seen)}
        first == IF rej = {} THEN 5 ELSE CHOOSE k \in rej : \A l \in rej : k <= l
        seenAt == CHOOSE k \in 1..4 : order[k] = "seen"
        marked == IF late THEN first = 5 ELSE first > seenAt
        seen2 == IF marked THEN st.seen \cup {PairId(c[1], c[2])} ELSE st.seen
        score == similarity_ratio(normalized[c[1] + 1], normalized[c[2] + 1],
                                  rapidfuzz_fuzz)
    IN  IF first <= 4 \/ BelowThreshold(score, args.similarity_threshold)
        THEN [seen |-> seen2, out |-> st.out]
        ELSE [seen |-> seen2, out |-> st.out \cup {{c[1], c[2]}}]

\* The candidates from the k-th on through the guards in the given order.
RECURSIVE ChainRun(_, _, _, _, _)
ChainRun(order, late, st, cands, k) ==
    IF k > Len(cands) THEN st
    ELSE ChainRun(order, late, ChainPair(order, late, st, cands[k]), cands, k + 1)

\* C24: the pairs a run reports are the pairs reported with the four guards
\* in any order, and with the pair marked seen after the guards.
GuardOrderIrrelevant ==
    pc = "done"
        => \A order \in ChainOrders, late \in BOOLEAN :
               ChainRun(order, late, [seen |-> {}, out |-> {}],
                        CandidatesFrom(1), 1).out = ReportedPairs

\* A finished run that reported a pair and rejected another for its length
\* delta, where two scored buckets hold the rejected pair.
WitnessGuardOrderIrrelevant ==
    /\ pc = "done"
    /\ ReportedPairs # {}
    /\ \E pid \in seen_pairs, p \in 1..Len(buckets), q \in 1..Len(buckets) :
           /\ p # q
           /\ LengthDeltaExceeded(lengths[pid[1] + 1], lengths[pid[2] + 1],
                                  args.length_delta)
           /\ Holds(buckets[p], pid[1], pid[2]) /\ Usable(buckets[p])
           /\ Holds(buckets[q], pid[1], pid[2]) /\ Usable(buckets[q])

(***************************************************************************)
(* C26                                                                     *)
(***************************************************************************)
\* The length class of record i under --length-bucket L > 0.
LengthClass(i) == lengths[i + 1] \div args.length_bucket

\* C26: with length_bucket > 0 the two records of a reported pair are in one
\* length class, and two records of different classes are never marked
\* seen, compared or reported.
SameLengthClass ==
    (Scoring /\ args.length_bucket > 0)
        => /\ \A r \in Range(similar_rows) : LengthClass(r.idx_a) = LengthClass(r.idx_b)
           /\ \A i \in Idx, j \in Idx :
                  (i < j /\ LengthClass(i) # LengthClass(j))
                      => /\ PairId(i, j) \notin seen_pairs
                         /\ <<i, j>> \notin Range(compared)
                         /\ {i, j} \notin ReportedPairs

\* A finished run with length classes of 2 that reported a pair and left
\* out two records of lengths 1 and 2, on either side of the boundary, that
\* have a band in common and a score above the threshold.
WitnessSameLengthClass ==
    /\ pc = "done"
    /\ args.length_bucket = 2
    /\ ReportedPairs # {}
    /\ \E i \in Idx, j \in Idx :
           /\ i < j
           /\ {lengths[i + 1], lengths[j + 1]} = {1, 2}
           /\ signatures[i + 1][1] = signatures[j + 1][1]
           /\ Qualifies(i, j)
           /\ {i, j} \notin ReportedPairs

(***************************************************************************)
(* C28                                                                     *)
(***************************************************************************)
\* C28: with length_delta 0 a pair of different lengths that shares a scored
\* bucket and passes the other guards and the threshold is reported.
ZeroLengthDeltaDisables ==
    (pc = "done" /\ args.length_delta[1] = 0)
        => \A i \in Idx, j \in Idx :
               (/\ i < j
                /\ lengths[i + 1] # lengths[j + 1]
                /\ \E p \in 1..Len(buckets) : Holds(buckets[p], i, j) /\ Usable(buckets[p])
                /\ lengths[i + 1] >= args.min_length
                /\ lengths[j + 1] >= args.min_length
                /\ ~FracLess(similarity_ratio(normalized[i + 1], normalized[j + 1],
                                              rapidfuzz_fuzz),
                             args.similarity_threshold))
                   => {i, j} \in ReportedPairs

\* A finished run with length_delta 0 that reported a pair of lengths 2 and 5.
WitnessZeroLengthDeltaDisables ==
    /\ pc = "done"
    /\ args.length_delta[1] = 0
    /\ \E r \in Range(similar_rows) :
           {lengths[r.idx_a + 1], lengths[r.idx_b + 1]} = {2, 5}

(***************************************************************************)
(* C29                                                                     *)
(***************************************************************************)
\* C29: with max_block_size 0 no bucket of two or more members is skipped:
\* after the loop has been through it, every pair of its members that are
\* not shorter than min_length has been through the guards and is marked
\* seen.
ZeroBlockSizeDisables ==
    (Scoring /\ args.max_block_size = 0)
        => \A p \in Visited :
               Len(buckets[p].idxs) >= 2
                   => /\ ~BucketSkipped(buckets[p].idxs, args.max_block_size)
                      /\ \A i \in Range(buckets[p].idxs), j \in Range(buckets[p].idxs) :
                             (/\ i < j
                              /\ lengths[i + 1] >= args.min_length
                              /\ lengths[j + 1] >= args.min_length)
                                 => PairId(i, j) \in seen_pairs

\* A finished run with max_block_size 0 and a bucket of three records, the
\* three pairs of which were reported.
WitnessZeroBlockSizeDisables ==
    /\ pc = "done"
    /\ args.max_block_size = 0
    /\ \E p \in 1..Len(buckets) :
           /\ buckets[p].idxs = <<0, 1, 2>>
           /\ {{0, 1}, {0, 2}, {1, 2}} \subseteq ReportedPairs

(***************************************************************************)
(* main() with --include-identical, on rows some of which are shorter than *)
(* the header: csv.DictReader gives None for their missing column.         *)
(***************************************************************************)
MaxIdenticalRecords == 3

\* Values of the column: None, "", "a", "ab", "ab ".
IdenticalPool == {None, <<>>, <<97>>, <<97, 98>>, <<97, 98, 32>>}

\* Command lines with --include-identical: thresholds 0.5 and 1, min_length
\* 0 and 2, max_block_size 0 and 2, --text-max-len 0 and 1.
IdenticalConfigs ==
    {[PermissiveArgs EXCEPT !.include_identical = TRUE,
                            !.length_delta = <<1, 2>>,
                            !.similarity_threshold = t, !.min_length = m,
                            !.max_block_size = x, !.text_max_len = <<n>>] :
         t \in {<<1, 2>>, <<1, 1>>}, m \in {0, 2}, x \in {0, 2}, n \in {0, 1}}

IdenticalInit ==
    MainStart(IdenticalConfigs, BOOLEAN, SeqsUpTo(IdenticalPool, MaxIdenticalRecords))

SpecIdentical == IdenticalInit /\ [][Next]_vars

(***************************************************************************)
(* C27                                                                     *)
(***************************************************************************)
\* The run has ended.
Ended == pc \in {"done", "crashed"}

\* The records i < j of equal normalized text meet the conditions of C27.
DuplicatesEligible(i, j) ==
    /\ i < j
    /\ normalized[i + 1] = normalized[j + 1]
    /\ args.include_identical
    /\ args.band_size <= args.sig_size
    /\ ~FracGreater(args.similarity_threshold, <<1, 1>>)
    /\ lengths[i + 1] >= args.min_length
    /\ \E p \in 1..Len(buckets) : Holds(buckets[p], i, j) /\ ~Oversized(buckets[p])

\* The pair of i and j is in the similar-pairs output with similarity 1.
ReportedAsEqual(i, j) ==
    \E r \in Range(similar_rows) :
        /\ RowPair(r) = {i, j}
        /\ r.score[1] = r.score[2]

\* C27: when the run has ended, every pair of records of equal normalized
\* text that meets the conditions is in the similar-pairs output with
\* similarity 1, and in the exact-duplicate report when the text is not
\* empty.
DuplicatesAlsoSimilar ==
    Ended
        => \A i \in Idx, j \in Idx :
               DuplicatesEligible(i, j)
                   => /\ ReportedAsEqual(i, j)
                      /\ Len(normalized[i + 1]) > 0 => SameGroup(i, j)

\* The part of C27 the code keeps: the same for the runs that end without
\* an exception.
DuplicatesAlsoSimilarUnlessRaised ==
    pc = "done"
        => \A i \in Idx, j \in Idx :
               DuplicatesEligible(i, j)
                   => /\ ReportedAsEqual(i, j)
                      /\ Len(normalized[i + 1]) > 0 => SameGroup(i, j)

(***************************************************************************)
(* main() over command lines that differ in every option.                  *)
(***************************************************************************)
MaxFrameRecords == 3

\* Raw texts: "a", "ab", "ab " (equal to "ab" once normalized), "a,b"
\* (equal to "ab" under --strip-punct), "abc".
FramePool == {<<97>>, <<97, 98>>, <<97, 98, 32>>, <<97, 44, 98>>, <<97, 98, 99>>}

\* Three settings of the nine options of the similarity phase.
FrameScoring ==
    {PermissiveArgs,
     [PermissiveArgs EXCEPT !.similarity_threshold = <<3, 4>>, !.min_length = 3,
                            !.length_delta = <<1, 2>>, !.max_block_size = 2,
                            !.include_identical = TRUE],
     [PermissiveArgs EXCEPT !.ngram = 2, !.sig_size = 3, !.band_size = 3,
                            !.length_bucket = 2]}

\* Each of them with and without --strip-punct, with --text-max-len 0 and 1.
FrameConfigs ==
    {[a EXCEPT !.strip_punct = s, !.text_max_len = <<n>>] :
         a \in FrameScoring, s \in BOOLEAN, n \in {0, 1}}

FrameInit == MainStart(FrameConfigs, {FALSE}, SeqsUpTo(FramePool, MaxFrameRecords))

SpecFrame == FrameInit /\ [][Next]_vars

\* Lines 177-233 as one function of the rows and the command line: the rows
\* of exact_duplicates.csv.
RunExact(rws, a) ==
    LET norms == [i \in 1..Len(rws) |-> normalize_text(rws[i], a.strip_punct)]
        nums == [i \in 1..Len(rws) |-> i + 1]
    IN  WriteExactRows(<<>>, 0, 1, BuildExactMap(<<>>, 0, norms), nums, rws,
                       a.text_max_len)

(***************************************************************************)
(* C30                                                                     *)
(***************************************************************************)
\* The command lines that differ from the run's in the nine options of the
\* similarity phase only.
OtherScoring ==
    {[a EXCEPT !.strip_punct = args.strip_punct,
               !.text_max_len = args.text_max_len] :
         a \in FrameScoring \cup {DefaultArgs}} \ {args}

\* C30: the exact-duplicate report of a run is the one of a run on the same
\* rows under every command line that differs only in the options of the
\* similarity phase, and during and after the scoring loop the raw texts,
\* normalized texts, lengths, signatures and buckets are those built before
\* it.
ExactReportFrame ==
    /\ PastExact
           => \A b \in OtherScoring : exact_rows = RunExact(rows, b)
    /\ Scoring
           => /\ texts = rows
              /\ normalized = [i \in 1..Len(rows) |->
                                   normalize_text(rows[i], args.strip_punct)]
              /\ lengths = [i \in 1..Len(rows) |-> Len(normalized[i])]
              /\ signatures = [i \in 1..Len(rows) |->
                                   minhash_signature(normalized[i], args.ngram,
                                                     args.sig_size)]
              /\ buckets = build_buckets(signatures, lengths, args.band_size,
                                         args.length_bucket)

\* A finished run under --min-length 3 and --text-max-len 1 whose scoring
\* loop went over buckets, with a reported group of duplicates shorter than
\* three characters whose raw texts differ and are displayed truncated.
WitnessExactReportFrame ==
    /\ pc = "done"
    /\ args.min_length = 3
    /\ bucket_pos > 0
    /\ \E p \in 1..Len(exact_rows), q \in 1..Len(exact_rows) :
           /\ exact_rows[p].group_id = exact_rows[q].group_id
           /\ texts[exact_rows[p].idx + 1] # texts[exact_rows[q].idx + 1]
           /\ lengths[exact_rows[p].idx + 1] < args.min_length
           /\ exact_rows[p].normalized_text # normalized[exact_rows[p].idx + 1]

====
